---- MODULE Spec2Model ----
(***************************************************************************)
(* Analytics cache (CacheService over Redis) and the upload-request        *)
(* lifecycle (UploadRequest) of X-Form-Backend.                            *)
(*                                                                         *)
(* Strings are sequences of tokens.  A token is one character of an        *)
(* identifier ("a", "b", "\\"), the separator ":", the glob wildcard "*",  *)
(* or a fixed word of the code (the prefix, a key type, a field name).     *)
(***************************************************************************)
EXTENDS Integers, Sequences, FiniteSets, TLC

VARIABLES
    cache,      \* the Redis keyspace: a set of entries, at most one per key
    now,        \* the Redis server clock, in seconds
    hits,       \* Redis INFO keyspace_hits
    entities,   \* the UploadRequest objects, by id
    lastOp,     \* the last operation performed, its arguments and its outcome
    table,      \* the DynamoDB table of upload requests: a set of items
    objects,    \* the S3 bucket: the keys that hold an object
    sweep,      \* the running CleanupExpiredUploadsUseCase.execute, if any
    grants,     \* the presigned uploads issued, by storage key
    upcache,    \* the keys held by the upload service's cache repository
    events,     \* the events published, in order
    requests,   \* InMemoryRateLimiter.requests: per key, the deque of times
    zsets,      \* the Redis sorted sets rate_limit:<key> and their expiry
    wall,       \* time.time() of the analytics service
    ratelog,    \* the rate-limit checks made so far and their decisions
    reader,     \* the get_form_analytics_summary call in flight, if any
    invalidations   \* the invalidate_cache calls that have returned

svcVars == <<table, objects, sweep, grants, upcache, events>>

rlVars == <<requests, zsets, wall, ratelog>>

raceVars == <<reader, invalidations>>

vars == <<cache, now, hits, entities, lastOp, svcVars, rlVars, raceVars>>

----------------------------------------------------------------------------
(* Bounds of the model *)

MaxEntries == 2     \* keys held by the store at once
MaxTime == 2        \* the clock stops here
MaxHits == 2        \* GET commands that found their key (keyspace_hits)

----------------------------------------------------------------------------
(* Values of the program *)

NoneVal == <<"<None>">>                 \* Python's None
D1 == <<"<datetime>", "d1">>            \* a datetime object
Datetimes == {D1}
SEP == ":"
CachePrefix == "analytics"              \* settings.cache_prefix
DefaultTtl == 2                         \* settings.cache_ttl, scaled to the clock

\* datetime.isoformat(): "YYYY-MM-DDThh:mm:ss" holds the separator character
isoformat(d) == <<d[2], SEP, "00">>

FormIds == {<<"a">>, <<"a", "b">>, <<"b", "\\">>}
QuestionIds == {<<"a">>, <<"a", "b">>}
Periods == {<<"1d">>}
Dates == {NoneVal} \cup Datetimes
\* <<start_date, end_date>> of a query: unbounded, or a range
DateRanges == {<<NoneVal, NoneVal>>, <<D1, D1>>}

KeyTypes == {"form_summary", "question_analytics", "trend_analysis"}

\* The order of the keyword names under Python's sorted()
NameRank(n) ==
    CASE n = "end_date" -> 1
      [] n = "form_id" -> 2
      [] n = "period" -> 3
      [] n = "question_id" -> 4
      [] n = "start_date" -> 5

RECURSIVE InsertSorted(_, _)
InsertSorted(kv, s) ==
    IF s = <<>> THEN <<kv>>
    ELSE IF NameRank(kv.name) <= NameRank(Head(s).name)
         THEN <<kv>> \o s
         ELSE <<Head(s)>> \o InsertSorted(kv, Tail(s))

\* kwargs.items() taken in call order, without sorted()
unsorted(kwargs) == kwargs

\* sorted(kwargs.items()): the keyword arguments in the order of their names
RECURSIVE sorted(_)
sorted(kwargs) ==
    IF kwargs = <<>> THEN <<>>
    ELSE InsertSorted(Head(kwargs), sorted(Tail(kwargs)))

RECURSIVE KeyParts(_)
KeyParts(items) ==
    IF items = <<>> THEN <<>>
    ELSE LET kv == Head(items)
             value == IF kv.value \in Datetimes THEN isoformat(kv.value)
                      ELSE kv.value
         IN (IF kv.value # NoneVal THEN <<SEP, kv.name, SEP>> \o value
             ELSE <<>>) \o KeyParts(Tail(items))

\* CacheService._get_cache_key(key_type, **kwargs); kwargs in call order
_get_cache_key(key_type, kwargs) ==
    <<CachePrefix, SEP, key_type>> \o KeyParts(sorted(kwargs))

KV(n, v) == [name |-> n, value |-> v]

FormSummaryKey(form_id, start_date, end_date) ==
    _get_cache_key("form_summary",
        <<KV("form_id", form_id), KV("start_date", start_date),
          KV("end_date", end_date)>>)

QuestionAnalyticsKey(form_id, question_id, start_date, end_date) ==
    _get_cache_key("question_analytics",
        <<KV("form_id", form_id), KV("question_id", question_id),
          KV("start_date", start_date), KV("end_date", end_date)>>)

TrendAnalysisKey(form_id, period, start_date, end_date) ==
    _get_cache_key("trend_analysis",
        <<KV("form_id", form_id), KV("period", period),
          KV("start_date", start_date), KV("end_date", end_date)>>)

\* A key written to the same Redis database by another service
ForeignKey == <<"other", SEP, "form_summary", SEP, "form_id", SEP, "a">>

----------------------------------------------------------------------------
(* Redis *)

\* Redis glob matching (KEYS): "*" matches any run of characters and a
\* backslash makes the next pattern character literal.
RECURSIVE stringmatchlen(_, _, _, _)
stringmatchlen(p, i, s, j) ==
    IF i > Len(p) THEN j > Len(s)
    ELSE IF p[i] = "*"
         THEN stringmatchlen(p, i + 1, s, j)
              \/ (j <= Len(s) /\ stringmatchlen(p, i, s, j + 1))
    ELSE IF p[i] = "\\" /\ i < Len(p)
         THEN j <= Len(s) /\ s[j] = p[i + 1]
              /\ stringmatchlen(p, i + 2, s, j + 1)
    ELSE j <= Len(s) /\ s[j] = p[i] /\ stringmatchlen(p, i + 1, s, j + 1)

stringmatch(p, s) == stringmatchlen(p, 1, s, 1)

\* The entries Redis still serves at time t
Live(store, t) == {e \in store : e.exp > t}

\* KEYS pattern
RedisKeys(store, t, pattern) ==
    {e \in Live(store, t) : stringmatch(pattern, e.key)}

----------------------------------------------------------------------------
(* CacheService: the operations on the store.  Each takes the store and the
   clock and yields the new store and what the caller gets back.  fail says
   that the Redis call raises (connection refused, timeout). *)

\* The Python values handed to the cache
PyValues == {"json1", "with_datetime", "unserializable"}

\* json.dumps(value, default=str): objects JSON cannot hold become their str()
\* A JSON text is written as the JSON value it denotes.
json_dumps(value) ==
    IF value = "with_datetime" THEN "with_datetime_as_str" ELSE value

\* json.dumps raises TypeError (a dict keyed by tuples) or ValueError (a cycle)
Serializable(value) == value # "unserializable"

json_loads(text) == text

\* ttl arguments: omitted (None) or a number of seconds
TtlNone == [given |-> FALSE, secs |-> 0]
Ttl(n) == [given |-> TRUE, secs |-> n]

\* A get without its try/except: a store error reaches the caller
get_unguarded(store, t, key, fail) ==
    IF fail THEN [value |-> "None", raised |-> TRUE, found |-> FALSE]
    ELSE LET live == {e \in Live(store, t) : e.key = key}
         IN IF live # {}
            THEN [value |-> json_loads((CHOOSE e \in live : TRUE).value),
                  raised |-> FALSE, found |-> TRUE]
            ELSE [value |-> "None", raised |-> FALSE, found |-> FALSE]

\* CacheService.get
get(store, t, key, fail) ==
    IF fail THEN [value |-> "None", raised |-> FALSE, found |-> FALSE]
    ELSE LET live == {e \in Live(store, t) : e.key = key}
         IN IF live # {}
            THEN [value |-> json_loads((CHOOSE e \in live : TRUE).value),
                  raised |-> FALSE, found |-> TRUE]
            ELSE [value |-> "None", raised |-> FALSE, found |-> FALSE]

\* A set that passes default_ttl to SETEX whatever ttl it was given
set_ignoring_ttl(store, t, key, value, ttl, fail, origin) ==
    IF ~Serializable(value) \/ fail
    THEN [store |-> store, result |-> FALSE, raised |-> FALSE]
    ELSE [store |-> {e \in store : e.key # key}
                    \cup {[key |-> key, value |-> json_dumps(value),
                           exp |-> t + DefaultTtl, origin |-> origin,
                           created |-> t, ttl |-> ttl]},
          result |-> TRUE, raised |-> FALSE]

\* CacheService.set.  origin (who composed the key), created and ttl are
\* kept beside the entry for the properties; Redis holds key, value and exp.
set(store, t, key, value, ttl, fail, origin) ==
    LET secs == IF ttl.given /\ ttl.secs # 0 THEN ttl.secs ELSE DefaultTtl
    IN IF ~Serializable(value) \/ fail
       THEN [store |-> store, result |-> FALSE, raised |-> FALSE]
       ELSE [store |-> {e \in store : e.key # key}
                       \cup {[key |-> key, value |-> json_dumps(value),
                              exp |-> t + secs, origin |-> origin,
                              created |-> t, ttl |-> ttl]},
             result |-> TRUE, raised |-> FALSE]

\* CacheService.delete
delete(store, t, key, fail) ==
    IF fail THEN [store |-> store, result |-> FALSE, raised |-> FALSE]
    ELSE [store |-> {e \in store : e.key # key},
          result |-> ({e \in Live(store, t) : e.key = key} # {}),
          raised |-> FALSE]

\* CacheService.delete_pattern: KEYS, then DEL of what it returned
delete_pattern(store, t, pattern, failKeys, failDel) ==
    LET keys == RedisKeys(store, t, pattern)
    IN IF failKeys \/ keys = {} \/ failDel
       THEN [store |-> store, result |-> 0, raised |-> FALSE]
       ELSE [store |-> store \ keys, result |-> Cardinality(keys),
             raised |-> FALSE]

FormPattern(form_id) ==
    <<CachePrefix, SEP, "*", SEP, "form_id", SEP>> \o form_id \o <<"*">>

QuestionPattern(form_id, question_id) ==
    <<CachePrefix, SEP, "*", SEP, "form_id", SEP>> \o form_id
    \o <<"*", SEP, "question_id", SEP>> \o question_id \o <<"*">>

AllPattern == <<CachePrefix, SEP, "*">>

\* CacheService.invalidate_form_cache
invalidate_form_cache(store, t, form_id, failKeys, failDel) ==
    delete_pattern(store, t, FormPattern(form_id), failKeys, failDel)

\* CacheService.invalidate_question_cache
invalidate_question_cache(store, t, form_id, question_id, failKeys, failDel) ==
    delete_pattern(store, t, QuestionPattern(form_id, question_id),
                   failKeys, failDel)

\* CacheService.invalidate_all_analytics_cache
invalidate_all_analytics_cache(store, t, failKeys, failDel) ==
    delete_pattern(store, t, AllPattern, failKeys, failDel)

Origin(type, form_id, question_id) ==
    [type |-> type, form_id |-> form_id, question_id |-> question_id]

----------------------------------------------------------------------------
(* Actions on the cache *)

Room(key) == Cardinality({e \in cache : e.key # key}) < MaxEntries

SetFormSummary(form_id, data, start_date, end_date, ttl, fail) ==
    LET key == FormSummaryKey(form_id, start_date, end_date)
        r == set(cache, now, key, data, ttl, fail,
                 Origin("form_summary", form_id, NoneVal))
    IN /\ Room(key)
       /\ cache' = r.store
       /\ lastOp' = [op |-> "set", key |-> key, value |-> data, ttl |-> ttl,
                     result |-> r.result, raised |-> r.raised, failed |-> fail]
       /\ UNCHANGED <<now, hits, entities, svcVars, rlVars, raceVars>>

SetQuestionAnalytics(form_id, question_id, data, start_date, end_date, ttl, fail) ==
    LET key == QuestionAnalyticsKey(form_id, question_id, start_date, end_date)
        r == set(cache, now, key, data, ttl, fail,
                 Origin("question_analytics", form_id, question_id))
    IN /\ Room(key)
       /\ cache' = r.store
       /\ lastOp' = [op |-> "set", key |-> key, value |-> data, ttl |-> ttl,
                     result |-> r.result, raised |-> r.raised, failed |-> fail]
       /\ UNCHANGED <<now, hits, entities, svcVars, rlVars, raceVars>>

SetTrendAnalysis(form_id, period, data, start_date, end_date, ttl, fail) ==
    LET key == TrendAnalysisKey(form_id, period, start_date, end_date)
        r == set(cache, now, key, data, ttl, fail,
                 Origin("trend_analysis", form_id, NoneVal))
    IN /\ Room(key)
       /\ cache' = r.store
       /\ lastOp' = [op |-> "set", key |-> key, value |-> data, ttl |-> ttl,
                     result |-> r.result, raised |-> r.raised, failed |-> fail]
       /\ UNCHANGED <<now, hits, entities, svcVars, rlVars, raceVars>>

\* Another client of the same Redis database writes a key of its own
ForeignSet ==
    /\ Room(ForeignKey)
    /\ cache' = {e \in cache : e.key # ForeignKey}
                \cup {[key |-> ForeignKey, value |-> "json1",
                       exp |-> now + DefaultTtl,
                       origin |-> Origin("foreign", NoneVal, NoneVal),
                       created |-> now, ttl |-> Ttl(DefaultTtl)]}
    /\ lastOp' = [op |-> "foreign_set", key |-> ForeignKey]
    /\ UNCHANGED <<now, hits, entities, svcVars, rlVars, raceVars>>

InvalidateForm(form_id, failKeys, failDel) ==
    LET r == invalidate_form_cache(cache, now, form_id, failKeys, failDel)
    IN /\ cache' = r.store
       /\ lastOp' = [op |-> "invalidate_form", form_id |-> form_id,
                     result |-> r.result, raised |-> r.raised,
                     failed |-> failKeys \/ failDel,
                     removed |-> cache \ r.store]
       /\ UNCHANGED <<now, hits, entities, svcVars, rlVars, raceVars>>

InvalidateQuestion(form_id, question_id, failKeys, failDel) ==
    LET r == invalidate_question_cache(cache, now, form_id, question_id,
                                       failKeys, failDel)
    IN /\ cache' = r.store
       /\ lastOp' = [op |-> "invalidate_question", form_id |-> form_id,
                     question_id |-> question_id,
                     result |-> r.result, raised |-> r.raised,
                     failed |-> failKeys \/ failDel,
                     removed |-> cache \ r.store]
       /\ UNCHANGED <<now, hits, entities, svcVars, rlVars, raceVars>>

InvalidateAll(failKeys, failDel) ==
    LET r == invalidate_all_analytics_cache(cache, now, failKeys, failDel)
    IN /\ cache' = r.store
       /\ lastOp' = [op |-> "invalidate_all",
                     result |-> r.result, raised |-> r.raised,
                     failed |-> failKeys \/ failDel,
                     removed |-> cache \ r.store]
       /\ UNCHANGED <<now, hits, entities, svcVars, rlVars, raceVars>>

\* delete_pattern makes two Redis calls; the second is not made when the
\* first raises
PatternFailures == {<<FALSE, FALSE>>, <<TRUE, FALSE>>, <<FALSE, TRUE>>}

\* RateLimiter(): no request seen yet
RateKeys == {"ip:1"}

InitLimiter ==
    /\ requests = [k \in RateKeys |-> <<>>]
    /\ zsets = [k \in RateKeys |-> [members |-> {}, expire_at |-> 0]]
    /\ wall = 0
    /\ ratelog = <<>>
    /\ reader = [pc |-> "idle"]
    /\ invalidations = 0

InitCache ==
    /\ cache = {}
    /\ now = 0
    /\ hits = 0
    /\ entities = <<>>
    /\ table = {}
    /\ objects = {}
    /\ sweep = [pc |-> "idle"]
    /\ grants = {}
    /\ upcache = {}
    /\ events = <<>>
    /\ InitLimiter
    /\ lastOp = [op |-> "init"]

\* The invalidation scenario: every key shape, one value, the default TTL
NextInval ==
    \/ \E f \in FormIds, d \in DateRanges :
          SetFormSummary(f, "json1", d[1], d[2], TtlNone, FALSE)
    \/ \E f \in FormIds, q \in QuestionIds, d \in DateRanges :
          SetQuestionAnalytics(f, q, "json1", d[1], d[2], TtlNone, FALSE)
    \/ \E f \in FormIds, p \in Periods, d \in DateRanges :
          SetTrendAnalysis(f, p, "json1", d[1], d[2], TtlNone, FALSE)
    \/ ForeignSet
    \/ \E f \in FormIds, x \in PatternFailures :
          InvalidateForm(f, x[1], x[2])
    \/ \E f \in FormIds, q \in QuestionIds, x \in PatternFailures :
          InvalidateQuestion(f, q, x[1], x[2])
    \/ \E x \in PatternFailures : InvalidateAll(x[1], x[2])

SpecInval == InitCache /\ [][NextInval]_vars

----------------------------------------------------------------------------
(* The cache over time: one key is written, with every value and TTL; the
   store may fail on any call. *)

MaxTtl == 1
TtlArgs == {TtlNone} \cup {Ttl(n) : n \in 0..MaxTtl}
WrittenForms == {<<"a">>}
ReadForms == {<<"a">>, <<"a", "b">>}

\* What the next operation remembers of the one before it
Brief(l) ==
    IF l.op = "set"
    THEN [op |-> "set", key |-> l.key, value |-> l.value, result |-> l.result]
    ELSE IF l.op = "read"
    THEN [op |-> "read", key |-> l.key, result |-> l.result,
          queried |-> l.queried, raised |-> l.raised,
          use_cache |-> l.use_cache]
    ELSE [op |-> l.op]

\* CacheService.get_form_summary
GetFormSummary(form_id, start_date, end_date, fail) ==
    LET key == FormSummaryKey(form_id, start_date, end_date)
        r == get(cache, now, key, fail)
    IN /\ hits < MaxHits
       /\ hits' = IF r.found THEN hits + 1 ELSE hits
       /\ lastOp' = [op |-> "get", key |-> key, value |-> r.value,
                     raised |-> r.raised, failed |-> fail,
                     stored |-> {e \in cache : e.key = key},
                     hitsBefore |-> hits,
                     prev |-> Brief(lastOp)]
       /\ UNCHANGED <<cache, now, entities, svcVars, rlVars, raceVars>>

\* CacheService.delete of a form summary key
Delete(form_id, fail) ==
    LET key == FormSummaryKey(form_id, NoneVal, NoneVal)
        r == delete(cache, now, key, fail)
    IN /\ cache' = r.store
       /\ lastOp' = [op |-> "delete", key |-> key, result |-> r.result,
                     raised |-> r.raised, failed |-> fail]
       /\ UNCHANGED <<now, hits, entities, svcVars, rlVars, raceVars>>

\* The Redis clock advances
Tick ==
    /\ now < MaxTime
    /\ now' = now + 1
    /\ lastOp' = [op |-> "tick"]
    /\ UNCHANGED <<cache, hits, entities, svcVars, rlVars, raceVars>>

\* Redis reclaims the keys whose TTL has run out
Evict ==
    /\ Live(cache, now) # cache
    /\ cache' = Live(cache, now)
    /\ lastOp' = [op |-> "evict"]
    /\ UNCHANGED <<now, hits, entities, svcVars, rlVars, raceVars>>

\* The responses the query source and the chart service produce
FreshValues == {"json1", "with_datetime"}

\* A truth test that takes every cached response for None
Truthy_never(value) == FALSE

\* Python truth of a cached response: None is false
Truthy(value) == value # "None"

\* AnalyticsService.get_form_analytics_summary
get_form_analytics_summary(store, t, form_id, start_date, end_date, use_cache, fresh, failGet, failSet, failQuery) ==
    LET key == FormSummaryKey(form_id, start_date, end_date)
        g == get(store, t, key, failGet)
        s == set(store, t, key, fresh, TtlNone, failSet,
                 Origin("form_summary", form_id, NoneVal))
    IN IF use_cache /\ g.raised
       THEN [store |-> store, result |-> "None", raised |-> TRUE,
             looked |-> TRUE, found |-> FALSE, queried |-> FALSE]
       ELSE IF use_cache /\ Truthy(g.value)
       THEN [store |-> store, result |-> g.value, raised |-> FALSE,
             looked |-> TRUE, found |-> g.found, queried |-> FALSE]
       ELSE IF failQuery
       THEN [store |-> store, result |-> "None", raised |-> TRUE,
             looked |-> use_cache, found |-> use_cache /\ g.found,
             queried |-> TRUE]
       ELSE IF use_cache
       THEN [store |-> s.store, result |-> fresh, raised |-> s.raised,
             looked |-> TRUE, found |-> g.found, queried |-> TRUE]
       ELSE [store |-> store, result |-> fresh, raised |-> FALSE,
             looked |-> FALSE, found |-> FALSE, queried |-> TRUE]

\* What fails during one read: <<the cache get, the cache set, the query>>
ReadFailures ==
    {<<FALSE, FALSE, FALSE>>, <<TRUE, FALSE, FALSE>>, <<FALSE, TRUE, FALSE>>,
     <<TRUE, TRUE, FALSE>>, <<FALSE, FALSE, TRUE>>}

AnalyticsRead(form_id, use_cache, fresh, failGet, failSet, failQuery) ==
    LET r == get_form_analytics_summary(cache, now, form_id, NoneVal, NoneVal,
                 use_cache, fresh, failGet, failSet, failQuery)
    IN /\ hits < MaxHits
       /\ Room(FormSummaryKey(form_id, NoneVal, NoneVal))
       /\ cache' = r.store
       /\ hits' = IF r.looked /\ r.found THEN hits + 1 ELSE hits
       /\ lastOp' = [op |-> "read", form_id |-> form_id,
                     key |-> FormSummaryKey(form_id, NoneVal, NoneVal),
                     use_cache |-> use_cache, fresh |-> fresh,
                     result |-> r.result, raised |-> r.raised,
                     queried |-> r.queried, looked |-> r.looked,
                     before |-> cache, hitsBefore |-> hits,
                     prev |-> Brief(lastOp),
                     failGet |-> failGet, failSet |-> failSet,
                     failQuery |-> failQuery]
       /\ UNCHANGED <<now, entities, svcVars, rlVars, raceVars>>

NextCache ==
    \/ \E f \in WrittenForms, v \in PyValues, ttl \in TtlArgs, fail \in BOOLEAN :
          SetFormSummary(f, v, NoneVal, NoneVal, ttl, fail)
    \/ \E f \in ReadForms, fail \in BOOLEAN :
          GetFormSummary(f, NoneVal, NoneVal, fail)
    \/ \E f \in ReadForms, fail \in BOOLEAN : Delete(f, fail)
    \/ \E f \in ReadForms, x \in PatternFailures : InvalidateForm(f, x[1], x[2])
    \/ \E f \in WrittenForms, uc \in BOOLEAN, v \in FreshValues,
          x \in ReadFailures :
          AnalyticsRead(f, uc, v, x[1], x[2], x[3])
    \/ Tick
    \/ Evict

SpecCache == InitCache /\ [][NextCache]_vars

----------------------------------------------------------------------------
(* Key composition on its own: every call order of the keyword arguments *)

MaxKwargs == 3      \* keyword arguments passed in one call

\* A question_id is an unvalidated path segment: it may hold the separator
SeparatorQuestionId == <<"a", SEP, "start_date", SEP>> \o isoformat(D1)

FieldValues ==
    {KV("form_id", f) : f \in FormIds}
    \cup {KV("question_id", q) : q \in QuestionIds \cup {SeparatorQuestionId}}
    \cup {KV("period", p) : p \in Periods}
    \cup {KV("start_date", d) : d \in Dates}
    \cup {KV("end_date", d) : d \in Dates}

Range(f) == {f[i] : i \in DOMAIN f}

\* The keyword arguments of one call: no name twice
Kwargs(n) ==
    {kw \in [1..n -> FieldValues] :
        \A i, j \in 1..n : i # j => kw[i].name # kw[j].name}

\* A call of _get_cache_key is about to be made with these arguments
InitKey ==
    /\ cache = {}
    /\ now = 0
    /\ hits = 0
    /\ entities = <<>>
    /\ table = {}
    /\ objects = {}
    /\ sweep = [pc |-> "idle"]
    /\ grants = {}
    /\ upcache = {}
    /\ events = <<>>
    /\ InitLimiter
    /\ lastOp \in {[op |-> "call", key_type |-> kt, kwargs |-> kw] :
                      kt \in KeyTypes,
                      kw \in UNION {Kwargs(n) : n \in 1..MaxKwargs}}

ComposeKey ==
    /\ lastOp.op = "call"
    /\ lastOp' = [op |-> "compose", key_type |-> lastOp.key_type,
                  kwargs |-> lastOp.kwargs,
                  key |-> _get_cache_key(lastOp.key_type, lastOp.kwargs)]
    /\ UNCHANGED <<cache, now, hits, entities, svcVars, rlVars, raceVars>>

NextKey == ComposeKey

SpecKey == InitKey /\ [][NextKey]_vars

----------------------------------------------------------------------------
(* UploadRequest: the entity and its lifecycle *)

MaxEntities == 2    \* UploadRequest objects constructed

\* FileStatus
FileStatus ==
    {"pending", "uploaded", "processing", "completed", "failed", "deleted"}

\* UploadPurpose (two of its five members)
UploadPurpose == {"form_attachment", "temporary"}

Filenames == {<<>>, <<"f">>}
UserIds == {NoneVal, <<"u">>}
UploadTtl == 2      \* timedelta(hours=1), in the clock's half hours

\* A uuid4 that returns the same identifier at every call
uuid_fixed(n) == "uuid0"

\* uuid.uuid4(): the n-th identifier drawn, never one drawn before
uuid4(n) == "uuid" \o ToString(n)

\* datetime.strftime("%Y/%m/%d"): year, month and day of the clock's day
ClockDay == 48      \* half hours in a day
strftime(t) == <<"Y", "/", "M", "/", "D" \o ToString(t \div ClockDay)>>

\* UploadRequest._generate_s3_key
_generate_s3_key(purpose, user_id, created_at, filename, token) ==
    LET date_prefix == strftime(created_at)
        unique_filename == <<token, "_">> \o filename
    IN IF user_id # NoneVal /\ user_id # <<>>
       THEN <<purpose, "/">> \o user_id \o <<"/">> \o date_prefix
            \o <<"/">> \o unique_filename
       ELSE <<purpose, "/", "anonymous", "/">> \o date_prefix
            \o <<"/">> \o unique_filename

\* An UploadRequest without the filename check of __post_init__
UploadRequest_unchecked(filename, purpose, user_id, status, t, drawn) ==
    [raised |-> FALSE,
     entity |-> [id |-> uuid4(drawn + 1),
                 filename |-> filename,
                 purpose |-> purpose,
                 user_id |-> user_id,
                 form_id |-> NoneVal,
                 metadata |-> <<>>,
                 presigned_url |-> NoneVal,
                 created_at |-> t,
                 expires_at |-> t + UploadTtl,
                 status |-> status,
                 s3_key |-> <<purpose, "/", "anonymous", "/", uuid4(drawn + 2),
                              "_">> \o filename]]

\* UploadRequest.__init__ and __post_init__; drawn counts the uuids drawn so far
UploadRequest(filename, purpose, user_id, status, t, drawn) ==
    IF filename = <<>>
    THEN [raised |-> TRUE]
    ELSE [raised |-> FALSE,
          entity |-> [id |-> uuid4(drawn + 1),
                      filename |-> filename,
                      purpose |-> purpose,
                      user_id |-> user_id,
                      form_id |-> NoneVal,
                      metadata |-> <<>>,
                      presigned_url |-> NoneVal,
                      created_at |-> t,
                      expires_at |-> t + UploadTtl,
                      status |-> status,
                      s3_key |-> _generate_s3_key(purpose, user_id, t, filename,
                                                  uuid4(drawn + 2))]]

\* A mark_as_uploaded without the status check
mark_as_uploaded_unguarded(e) ==
    [entity |-> [e EXCEPT !.status = "uploaded"], raised |-> FALSE]

\* UploadRequest.mark_as_uploaded
mark_as_uploaded(e) ==
    IF e.status # "pending"
    THEN [entity |-> e, raised |-> TRUE]
    ELSE [entity |-> [e EXCEPT !.status = "uploaded"], raised |-> FALSE]

\* A mark_as_failed that also forgets the storage key
mark_as_failed_rekeyed(e) ==
    [entity |-> [e EXCEPT !.status = "failed", !.s3_key = <<>>],
     raised |-> FALSE]

\* UploadRequest.mark_as_failed
mark_as_failed(e) ==
    [entity |-> [e EXCEPT !.status = "failed"], raised |-> FALSE]

\* A mark_as_deleted that rejects an entity already deleted
mark_as_deleted_once(e) ==
    IF e.status = "deleted"
    THEN [entity |-> e, raised |-> TRUE]
    ELSE [entity |-> [e EXCEPT !.status = "deleted"], raised |-> FALSE]

\* A mark_as_deleted that leaves the status as it was
mark_as_deleted_kept(e) == [entity |-> e, raised |-> FALSE]

\* UploadRequest.mark_as_deleted
mark_as_deleted(e) ==
    [entity |-> [e EXCEPT !.status = "deleted"], raised |-> FALSE]

\* uuids drawn so far: two by each UploadRequest, two more by each presign
Drawn == 2 * Len(entities) + 4 * Cardinality(grants)

\* An UploadRequest is built: by a use case (status pending) or by the
\* repository from a stored item (any status)
Construct(filename, purpose, user_id, status) ==
    LET r == UploadRequest(filename, purpose, user_id, status, now, Drawn)
    IN /\ Len(entities) < MaxEntities
       /\ entities' = IF r.raised THEN entities ELSE Append(entities, r.entity)
       /\ lastOp' = [op |-> "construct", filename |-> filename,
                     raised |-> r.raised]
       /\ UNCHANGED <<cache, now, hits, svcVars, rlVars, raceVars>>

Lifecycle(name, i, r) ==
    /\ entities' = [entities EXCEPT ![i] = r.entity]
    /\ lastOp' = [op |-> name, index |-> i, raised |-> r.raised,
                  before |-> entities[i]]
    /\ UNCHANGED <<cache, now, hits, svcVars, rlVars, raceVars>>

MarkAsUploaded(i) ==
    Lifecycle("mark_as_uploaded", i, mark_as_uploaded(entities[i]))

MarkAsFailed(i) ==
    Lifecycle("mark_as_failed", i, mark_as_failed(entities[i]))

MarkAsDeleted(i) ==
    Lifecycle("mark_as_deleted", i, mark_as_deleted(entities[i]))

NextUpload ==
    \/ \E f \in Filenames, p \in UploadPurpose, u \in UserIds,
          st \in FileStatus : Construct(f, p, u, st)
    \/ \E i \in DOMAIN entities : MarkAsUploaded(i)
    \/ \E i \in DOMAIN entities : MarkAsFailed(i)
    \/ \E i \in DOMAIN entities : MarkAsDeleted(i)

SpecUpload == InitCache /\ [][NextUpload]_vars

----------------------------------------------------------------------------
(* The upload service: DynamoDB table, S3 bucket, cache, events, and
   GenerateUploadUrlUseCase.  A filename is a sequence of tokens: a name
   character ("f"), the blank " ", the dot ".", or an extension word. *)

MaxGrants == 1      \* presigned uploads issued

\* datetime.isoformat and datetime.fromisoformat of the table's date fields
dt_isoformat(t) == <<"iso", t>>
fromisoformat(text) == text[2]

\* The attributes _entity_to_item drops when they are None
OptionalAttributes == {"user_id", "form_id", "presigned_url"}

\* DynamoDBUploadRequestRepository._entity_to_item: the dict of the entity's
\* fields without the None values.  metadata is <<>> for None and a
\* one-element sequence holding the FileMetadata otherwise.
_entity_to_item(entity) ==
    LET item == [id |-> entity.id,
                 filename |-> entity.filename,
                 purpose |-> entity.purpose,
                 expires_at |-> dt_isoformat(entity.expires_at),
                 created_at |-> dt_isoformat(entity.created_at),
                 status |-> entity.status,
                 s3_key |-> entity.s3_key]
        kept == {k \in OptionalAttributes : entity[k] # NoneVal}
        meta == IF Len(entity.metadata) = 0 THEN <<>>
                ELSE [metadata |->
                        [content_type |-> entity.metadata[1].content_type,
                         size_bytes |-> entity.metadata[1].size_bytes,
                         checksum |-> entity.metadata[1].checksum,
                         original_filename |->
                             entity.metadata[1].original_filename]]
    IN item @@ [k \in kept |-> entity[k]] @@ meta

\* The attributes _item_to_entity reads with item[...]
RequiredAttributes == {"id", "filename", "purpose", "expires_at", "created_at",
                       "status"}

\* dict.get: the value of the key, or None
item_get(item, k) == IF k \in DOMAIN item THEN item[k] ELSE NoneVal

\* An _item_to_entity that reads the projected attributes only
_item_to_entity_projected(item) ==
    IF ~(RequiredAttributes \subseteq DOMAIN item)
    THEN [raised |-> TRUE]
    ELSE [raised |-> FALSE,
          entity |-> [id |-> item.id,
                      filename |-> item.filename,
                      purpose |-> item.purpose,
                      user_id |-> NoneVal,
                      form_id |-> NoneVal,
                      metadata |-> <<>>,
                      presigned_url |-> NoneVal,
                      created_at |-> fromisoformat(item.created_at),
                      expires_at |-> fromisoformat(item.expires_at),
                      status |-> item.status,
                      s3_key |-> item.s3_key]]

\* DynamoDBUploadRequestRepository._item_to_entity: a missing required
\* attribute is a KeyError; a given s3_key is kept by __post_init__
_item_to_entity(item) ==
    IF ~(RequiredAttributes \subseteq DOMAIN item)
    THEN [raised |-> TRUE]
    ELSE [raised |-> FALSE,
          entity |-> [id |-> item.id,
                      filename |-> item.filename,
                      purpose |-> item.purpose,
                      user_id |-> item_get(item, "user_id"),
                      form_id |-> item_get(item, "form_id"),
                      metadata |->
                          IF "metadata" \in DOMAIN item
                          THEN <<[content_type |-> item.metadata.content_type,
                                  size_bytes |-> item.metadata.size_bytes,
                                  checksum |-> item.metadata.checksum,
                                  original_filename |->
                                      item.metadata.original_filename]>>
                          ELSE <<>>,
                      presigned_url |-> item_get(item, "presigned_url"),
                      created_at |-> fromisoformat(item.created_at),
                      expires_at |-> fromisoformat(item.expires_at),
                      status |-> item.status,
                      s3_key |-> item.s3_key]]

\* table.put_item: the item replaces the one with the same id
put_item(tbl, item) == {x \in tbl : x.id # item.id} \cup {item}

\* str.strip
RECURSIVE lstrip(_)
lstrip(text) ==
    IF text # <<>> /\ Head(text) = " " THEN lstrip(Tail(text)) ELSE text

RECURSIVE rstrip(_)
rstrip(text) ==
    IF text # <<>> /\ text[Len(text)] = " "
    THEN rstrip(SubSeq(text, 1, Len(text) - 1))
    ELSE text

strip(text) == rstrip(lstrip(text))

\* str.lower
lower(text) == [i \in DOMAIN text |-> IF text[i] = "JPG" THEN "jpg" ELSE text[i]]

\* text.split('.')[-1]
LastPart(text) ==
    LET dots == {i \in DOMAIN text : text[i] = "."}
    IN IF dots = {} THEN text
       ELSE SubSeq(text, (CHOOSE i \in dots : \A j \in dots : j <= i) + 1,
                   Len(text))

allowed_extensions ==
    {<<".", x>> : x \in {"jpg", "jpeg", "png", "gif", "pdf", "doc", "docx",
                         "txt", "csv", "xlsx", "zip", "mp4", "mov"}}

\* GenerateUploadUrlUseCase._validate_upload_request: the error it raises
_validate_upload_request(filename, content_type) ==
    LET file_ext == IF \E i \in DOMAIN filename : filename[i] = "."
                    THEN LastPart(lower(filename))
                    ELSE <<>>
    IN IF filename = <<>> \/ strip(filename) = <<>>
       THEN "InvalidFileError"
       ELSE IF content_type = <<>>
       THEN "InvalidFileError"
       ELSE IF (<<".">> \o file_ext) \notin allowed_extensions
       THEN "InvalidFileError"
       ELSE "none"

\* IAuthenticationService.get_user_id: the user of a token, or None
get_user_id(token) ==
    IF token = <<"good">> THEN <<"u">>
    ELSE IF token = <<"other">> THEN <<"v">>
    ELSE NoneVal

\* An _authenticate_user that takes an unknown token for no token
_authenticate_user_lenient(token) ==
    [error |-> "none", user_id |-> get_user_id(token)]

\* GenerateUploadUrlUseCase._authenticate_user
_authenticate_user(token) ==
    LET user_id == get_user_id(token)
    IN IF user_id = NoneVal \/ user_id = <<>>
       THEN [error |-> "UnauthorizedAccessError", user_id |-> NoneVal]
       ELSE [error |-> "none", user_id |-> user_id]

GrantFilenames ==
    {<<>>, <<" ">>, <<"f">>, <<"f", ".", "jpg">>, <<"f", ".", "JPG">>,
     <<"f", ".", "exe">>}
ContentTypes == {<<>>, <<"image/jpeg">>}
UserTokens == {NoneVal, <<>>, <<"good">>, <<"bad">>}
ExpiresIn == {1}
GrantFormIds == {NoneVal, <<"a">>}

\* What fails during one execute: the presign, the save, the cache set, the
\* publish; at most one of them
GrantFailures == {"none", "presign", "save", "cache", "publish"}

\* The calls of execute: <<filename, content_type, user_token, fail>>.
\* Every filename and every token; two inputs wrong at once; every failure
\* of a dependency on a valid call.
GrantCalls ==
    {<<f, <<"image/jpeg">>, NoneVal, "none">> : f \in GrantFilenames}
    \cup {<<<<"f", ".", "jpg">>, c, tok, "none">> :
              c \in ContentTypes, tok \in UserTokens}
    \cup {<<f, <<"image/jpeg">>, <<"bad">>, "none">> :
              f \in {<<>>, <<"f", ".", "exe">>}}
    \cup {<<<<"f", ".", "jpg">>, <<"image/jpeg">>, tok, fail>> :
              tok \in {NoneVal, <<"good">>}, fail \in GrantFailures}


\* S3StorageRepository.generate_presigned_upload_url: the UploadResult
generate_presigned_upload_url(s3_key, content_type, expires_in_seconds, t, drawn) ==
    [upload_id |-> uuid4(drawn + 4),
     presigned_url |-> <<"https://", "bucket", ".s3.amazonaws.com/">>,
     s3_key |-> s3_key,
     expires_at |-> t + expires_in_seconds,
     upload_fields |-> [key |-> s3_key,
                        content_type |-> content_type,
                        x_amz_meta_upload_id |-> uuid4(drawn + 3)]]

\* The entity is saved before the presigned URL is asked for
ExecuteSteps_save_first ==
    <<"validate", "authenticate", "build", "save", "presign", "cache",
      "publish">>

\* The steps of GenerateUploadUrlUseCase.execute, in the order of its code
ExecuteSteps ==
    <<"validate", "authenticate", "build", "presign", "save", "cache",
      "publish">>

\* await self._event_publisher.publish_upload_started(saved_request)
RunPublish(c) ==
    IF c.call.fail = "publish" THEN [c EXCEPT !.error = "Exception"]
    ELSE [c EXCEPT !.events = Append(c.events,
                                  <<"upload_started", c.request[1].id>>)]

\* One step of execute on the context c of the call: the arguments, the
\* locals (user_id, upload_request, upload_result), the collaborators'
\* state, the error raised and the steps entered
RunStep(c, s) ==
    LET d == [c EXCEPT !.calls = Append(c.calls, s)]
        call == c.call
    IN CASE s = "validate" ->
              [d EXCEPT !.error = _validate_upload_request(call.filename,
                                                           call.content_type)]
         [] s = "authenticate" ->
              IF call.user_token = NoneVal \/ call.user_token = <<>>
              THEN c
              ELSE LET auth == _authenticate_user(call.user_token)
                   IN [d EXCEPT !.error = auth.error,
                                !.user_id = auth.user_id]
         [] s = "build" ->
              LET metadata == [content_type |-> call.content_type,
                               size_bytes |-> 0,
                               checksum |-> NoneVal,
                               original_filename |-> call.filename]
                  built == UploadRequest(call.filename, call.purpose,
                                         c.user_id, "pending", call.t,
                                         call.drawn)
              IN IF built.raised THEN [d EXCEPT !.error = "ValueError"]
                 ELSE [d EXCEPT !.request =
                          <<[built.entity EXCEPT
                               !.metadata = <<metadata>>,
                               !.form_id = call.form_id,
                               !.expires_at =
                                   call.t + call.expires_in_seconds]>>]
         [] s = "presign" ->
              IF call.fail = "presign" THEN [d EXCEPT !.error = "Exception"]
              ELSE LET upload_result ==
                           generate_presigned_upload_url(
                               c.request[1].s3_key, call.content_type,
                               call.expires_in_seconds, call.t, call.drawn)
                   IN [d EXCEPT
                         !.result = <<upload_result>>,
                         !.grants = c.grants \cup {c.request[1].s3_key},
                         !.request = <<[c.request[1] EXCEPT
                                          !.presigned_url =
                                              upload_result.presigned_url]>>]
         [] s = "save" ->
              IF call.fail = "save" THEN [d EXCEPT !.error = "Exception"]
              ELSE [d EXCEPT !.table = put_item(c.table,
                                           _entity_to_item(c.request[1])),
                             !.saves = c.saves + 1]
         [] s = "cache" ->
              IF call.fail = "cache" THEN d
              ELSE [d EXCEPT !.upcache = c.upcache \cup
                                {<<"upload_request", ":", c.request[1].id>>}]
         [] s = "publish" -> RunPublish(d)

\* The steps run in order until one raises
RECURSIVE RunSteps(_, _)
RunSteps(c, steps) ==
    IF steps = <<>> \/ c.error # "none" THEN c
    ELSE RunSteps(RunStep(c, Head(steps)), Tail(steps))

\* GenerateUploadUrlUseCase.execute
GenerateUploadUrl(filename, content_type, purpose, user_token, form_id, expires_in_seconds, fail) ==
    LET call == [filename |-> filename, content_type |-> content_type,
                 purpose |-> purpose, user_token |-> user_token,
                 form_id |-> form_id,
                 expires_in_seconds |-> expires_in_seconds, fail |-> fail,
                 t |-> now, drawn |-> Drawn]
        c == RunSteps([call |-> call, user_id |-> NoneVal, request |-> <<>>,
                       result |-> <<>>, grants |-> grants, table |-> table,
                       upcache |-> upcache, events |-> events, saves |-> 0,
                       error |-> "none", calls |-> <<>>],
                      ExecuteSteps)
    IN /\ grants' = c.grants
       /\ table' = c.table
       /\ upcache' = c.upcache
       /\ events' = c.events
       /\ lastOp' = [op |-> "create_grant", filename |-> filename,
                     content_type |-> content_type,
                     user_token |-> user_token, form_id |-> form_id,
                     fail |-> fail, error |-> c.error,
                     result |-> IF c.error = "none" THEN c.result ELSE <<>>,
                     calls |-> c.calls, issued |-> c.grants \ grants,
                     saves |-> c.saves, request |-> c.request,
                     before |-> table,
                     published |-> Len(c.events) - Len(events),
                     changed |-> <<grants', table', upcache', events'>>
                                 # <<grants, table, upcache, events>>]
       /\ UNCHANGED <<cache, now, hits, entities, objects, sweep, rlVars, raceVars>>

\* The call is turned down before anything is issued
Rejected(call) ==
    \/ _validate_upload_request(call[1], call[2]) # "none"
    \/ (call[3] \notin {NoneVal, <<>>}
        /\ _authenticate_user(call[3]).error # "none")

CreateGrant ==
    \E call \in GrantCalls, form_id \in GrantFormIds, x \in ExpiresIn :
        /\ Rejected(call) \/ Cardinality(grants) < MaxGrants
        /\ GenerateUploadUrl(call[1], call[2], "temporary", call[3],
                             form_id, x, call[4])

\* An UploadRequest is constructed directly, with any filename
ConstructPending ==
    \E f \in Filenames \cup {<<" ">>}, p \in UploadPurpose :
        Construct(f, p, NoneVal, "pending")

NextGrant ==
    \/ CreateGrant
    \/ ConstructPending

SpecGrant == InitCache /\ [][NextGrant]_vars

----------------------------------------------------------------------------
(* CleanupExpiredUploadsUseCase over the table and the bucket.  execute
   awaits the repository and the storage, so it runs in steps: the fetch,
   one step per request found, the return. *)

MaxItems == 2       \* upload requests in the table

\* Attr('expires_at').lt(before_date.isoformat()): the two texts compare as
\* the times they were formatted from
IsoLess(a, b) == a[2] < b[2]

\* table.scan with the FilterExpression of find_expired_requests
ScanExpired(tbl, before_date) ==
    {item \in tbl : IsoLess(item.expires_at, dt_isoformat(before_date))}

\* ProjectionExpression='id, s3_key, #status, expires_at'
Projection(item) ==
    [id |-> item.id, s3_key |-> item.s3_key, status |-> item.status,
     expires_at |-> item.expires_at]

\* The implementations of IUploadRequestRepository the use case runs with:
\* the one create_configured_app wires, and one that returns the expired
\* requests whole, as the interface describes and the test double does
Repositories == {"DynamoDBUploadRequestRepository", "IUploadRequestRepository"}

\* find_expired_requests: the requests found, or the error raised
find_expired_requests(repo, tbl, before_date, fail) ==
    LET items == ScanExpired(tbl, before_date)
        read == IF repo = "DynamoDBUploadRequestRepository"
                THEN {_item_to_entity(Projection(item)) : item \in items}
                ELSE {_item_to_entity(item) : item \in items}
    IN IF fail THEN [raised |-> "Exception", requests |-> {}]
       ELSE IF \E r \in read : r.raised
       THEN [raised |-> "KeyError", requests |-> {}]
       ELSE [raised |-> "none", requests |-> {r.entity : r \in read}]

\* The sequences that list the members of a set once each
Orders(S) ==
    {seq \in [1..Cardinality(S) -> S] :
        \A i, j \in 1..Cardinality(S) : i # j => seq[i] # seq[j]}

\* S3StorageRepository.file_exists: head_object answers, or fails with
\* an error other than 404
file_exists(objs, s3_key, outcome) ==
    IF outcome = "error" THEN [raised |-> TRUE, exists |-> FALSE]
    ELSE [raised |-> FALSE, exists |-> s3_key \in objs]

\* S3StorageRepository.delete_file: never raises; reports success or not
delete_file(objs, s3_key, outcome) ==
    IF outcome = "refused" THEN [objects |-> objs, success |-> FALSE]
    ELSE [objects |-> objs \ {s3_key}, success |-> TRUE]

\* DynamoDBUploadRequestRepository.update
update(tbl, entity, fail) ==
    IF fail THEN [raised |-> TRUE, table |-> tbl]
    ELSE [raised |-> FALSE, table |-> put_item(tbl, _entity_to_item(entity))]

ZeroStats ==
    [total_found |-> 0, deleted_from_storage |-> 0, updated_in_db |-> 0,
     errors |-> 0]

\* The run of execute that ended right before this one starts, if nothing
\* has happened since
PreviousRun ==
    IF lastOp.op = "sweep"
    THEN <<[raised |-> lastOp.raised, before_date |-> lastOp.before_date,
            stats |-> lastOp.stats]>>
    ELSE <<>>

\* execute up to the loop: the fetch and the stats
SweepStart(repo, fail) ==
    LET found == find_expired_requests(repo, table, now, fail)
        prev == PreviousRun
    IN /\ sweep.pc = "idle"
       /\ IF found.raised # "none"
          THEN /\ sweep' = sweep
               /\ lastOp' = [op |-> "sweep", raised |-> found.raised,
                             repo |-> repo, before_date |-> now,
                             atStart |-> table, stats |-> <<>>,
                             log |-> <<>>, prev |-> prev]
          ELSE /\ \E expired_requests \in Orders(found.requests) :
                     sweep' = [pc |-> "loop", repo |-> repo,
                               before_date |-> now,
                               expired_requests |-> expired_requests,
                               i |-> 1,
                               stats |-> [ZeroStats EXCEPT !.total_found =
                                             Len(expired_requests)],
                               atStart |-> table, log |-> <<>>,
                               prev |-> prev]
               /\ lastOp' = [op |-> "sweep_start", repo |-> repo]
       /\ UNCHANGED <<cache, now, hits, entities, table, objects, grants,
                      upcache, events, rlVars, raceVars>>

\* How the storage and the repository answer during one pass of the loop:
\* <<file_exists, delete_file, update fails>>
StepOutcomes ==
    {<<"answer", "done", FALSE>>, <<"error", "done", FALSE>>,
     <<"answer", "refused", FALSE>>, <<"answer", "done", TRUE>>}

\* A guard that lets every status through
ShouldReapAny(request) == TRUE

\* if request.status in [FileStatus.PENDING, FileStatus.FAILED]
ShouldReap(request) == request.status \in {"pending", "failed"}

\* Stats that leave errors as it was
CountStatsNoErrors(stats, deleted, updated, failed) ==
    [stats EXCEPT
        !.deleted_from_storage = IF deleted THEN @ + 1 ELSE @,
        !.updated_in_db = IF updated THEN @ + 1 ELSE @]

\* The stats after one pass: stats[...] += 1 where the pass got that far
CountStats(stats, deleted, updated, failed) ==
    [stats EXCEPT
        !.deleted_from_storage = IF deleted THEN @ + 1 ELSE @,
        !.updated_in_db = IF updated THEN @ + 1 ELSE @,
        !.errors = IF failed THEN @ + 1 ELSE @]

\* The status the table holds for an id
Persisted(tbl, id) ==
    IF \E item \in tbl : item.id = id
    THEN (CHOOSE item \in tbl : item.id = id).status
    ELSE "absent"

\* One pass of the loop of execute
SweepStep(existsOutcome, deleteOutcome, failUpdate) ==
    LET request == sweep.expired_requests[sweep.i]
        reap == ShouldReap(request)
        ex == file_exists(objects, request.s3_key, existsOutcome)
        del == IF ex.exists
               THEN delete_file(objects, request.s3_key, deleteOutcome)
               ELSE [objects |-> objects, success |-> FALSE]
        upd == update(table, mark_as_deleted(request).entity, failUpdate)
        checked == reap
        deleting == reap /\ ~ex.raised /\ ex.exists
        updating == reap /\ ~ex.raised
        updated == updating /\ ~upd.raised
        failed == reap /\ (ex.raised \/ upd.raised)
        entry == [id |-> request.id, checked |-> checked,
                  delete_called |-> deleting,
                  deleted |-> deleting /\ del.success,
                  update_called |-> updating, updated |-> updated,
                  error |-> failed]
    IN /\ sweep.pc = "loop"
       /\ sweep.i <= Len(sweep.expired_requests)
       /\ objects' = IF deleting THEN del.objects ELSE objects
       /\ table' = IF updated THEN upd.table ELSE table
       /\ sweep' = [sweep EXCEPT
             !.i = @ + 1,
             !.log = Append(@, entry),
             !.stats = CountStats(@, deleting /\ del.success, updated,
                                  failed)]
       /\ lastOp' = [op |-> "sweep_step", id |-> request.id,
                     persisted |-> Persisted(table, request.id),
                     deleted |-> deleting /\ del.success
                                 /\ request.s3_key \in objects,
                     updated |-> updated]
       /\ UNCHANGED <<cache, now, hits, entities, grants, upcache, events, rlVars, raceVars>>

\* execute returns the stats
SweepReturn ==
    /\ sweep.pc = "loop"
    /\ sweep.i > Len(sweep.expired_requests)
    /\ sweep' = [pc |-> "idle"]
    /\ lastOp' = [op |-> "sweep", raised |-> "none", repo |-> sweep.repo,
                  before_date |-> sweep.before_date,
                  atStart |-> sweep.atStart, stats |-> <<sweep.stats>>,
                  log |-> sweep.log, prev |-> sweep.prev]
    /\ UNCHANGED <<cache, now, hits, entities, table, objects, grants,
                   upcache, events, rlVars, raceVars>>

\* A valid, anonymous execute of GenerateUploadUrlUseCase
IssueGrant ==
    /\ Cardinality(table) < MaxItems
    /\ Cardinality(grants) < MaxItems
    /\ \E form_id \in GrantFormIds, x \in ExpiresIn :
          GenerateUploadUrl(<<"f", ".", "jpg">>, <<"image/jpeg">>, "temporary",
                            NoneVal, form_id, x, "none")

\* The client posts the file to the presigned URL
ClientUpload(s3_key) ==
    /\ s3_key \in grants
    /\ s3_key \notin objects
    /\ objects' = objects \cup {s3_key}
    /\ lastOp' = [op |-> "client_upload", s3_key |-> s3_key]
    /\ UNCHANGED <<cache, now, hits, entities, table, sweep, grants, upcache,
                   events, rlVars, raceVars>>

\* The statuses the upload pipeline moves a request to
PipelineStatuses == {"uploaded", "processing", "completed", "failed"}

\* The upload pipeline moves a stored request to another status: find_by_id,
\* the transition, update
PersistTransition(id, status) ==
    \E item \in table :
        LET e == _item_to_entity(item).entity
            r == IF status = "uploaded" THEN mark_as_uploaded(e)
                 ELSE IF status = "failed" THEN mark_as_failed(e)
                 ELSE [entity |-> [e EXCEPT !.status = status],
                       raised |-> FALSE]
        IN /\ item.id = id
           /\ item.status # status
           /\ table' = IF r.raised THEN table
                       ELSE update(table, r.entity, FALSE).table
           /\ lastOp' = [op |-> "transition", id |-> id, status |-> status,
                         raised |-> r.raised]
           /\ UNCHANGED <<cache, now, hits, entities, objects, sweep, grants,
                          upcache, events, rlVars, raceVars>>

Ids(tbl) == {item.id : item \in tbl}

\* The sweep with nothing else running beside it
NextSweep ==
    \/ sweep.pc = "idle" /\ IssueGrant
    \/ sweep.pc = "idle" /\ \E k \in grants : ClientUpload(k)
    \/ sweep.pc = "idle" /\ \E id \in Ids(table), st \in PipelineStatuses :
                               PersistTransition(id, st)
    \/ sweep.pc = "idle" /\ Tick
    \/ \E repo \in Repositories, fail \in BOOLEAN : SweepStart(repo, fail)
    \/ \E o \in StepOutcomes : SweepStep(o[1], o[2], o[3])
    \/ SweepReturn

SpecSweep == InitCache /\ [][NextSweep]_vars

\* The upload pipeline marks a request uploaded while the sweep is in its loop
CompleteDuringSweep ==
    /\ sweep.pc = "loop"
    /\ \E id \in Ids(table) : PersistTransition(id, "uploaded")

NextRace ==
    \/ NextSweep
    \/ CompleteDuringSweep

SpecRace == InitCache /\ [][NextRace]_vars

----------------------------------------------------------------------------
(* GetUploadStatusUseCase and DeleteFileUseCase: who may read and delete an
   upload request *)

\* How has_permission is answered: by the built-in rules, or by the external
\* auth service (which grants, refuses, or cannot be reached)
PermissionSources == {"default", "external_yes", "external_no",
                      "external_down"}

\* JWTAuthenticationService._check_default_permission
_check_default_permission(resource, action) ==
    IF resource = "files"
    THEN IF action \in {"read", "create", "delete_own"} THEN TRUE
         ELSE FALSE
    ELSE FALSE

\* JWTAuthenticationService.has_permission
has_permission(source, resource, action) ==
    IF source = "default" THEN _check_default_permission(resource, action)
    ELSE source = "external_yes"

\* DynamoDBUploadRequestRepository.find_by_id: <<>> for None
find_by_id(tbl, entity_id) ==
    IF \E item \in tbl : item.id = entity_id
    THEN <<_item_to_entity(CHOOSE item \in tbl : item.id = entity_id).entity>>
    ELSE <<>>

\* _authorize_access and _authorize_deletion: the error raised, or "none"
_authorize(upload_request, token, source, action) ==
    LET user_id == get_user_id(token)
    IN IF user_id = NoneVal THEN "UnauthorizedAccessError"
       ELSE IF upload_request.user_id # user_id
               /\ ~has_permission(source, "files", action)
            THEN "UnauthorizedAccessError"
       ELSE "none"

\* GetUploadStatusUseCase.execute: the entity returned or the error raised.
\* A cache hit leads to find_by_id as a miss does.
get_upload_status(tbl, cch, upload_id, user_token, source) ==
    LET cached == <<"upload_request", ":", upload_id>> \in cch
        from_cache == IF cached THEN find_by_id(tbl, upload_id) ELSE <<>>
        upload_request == IF from_cache # <<>> THEN from_cache
                          ELSE find_by_id(tbl, upload_id)
    IN IF upload_request = <<>>
       THEN [error |-> "FileNotFoundError", result |-> <<>>]
       ELSE IF user_token # NoneVal /\ user_token # <<>>
               /\ _authorize(upload_request[1], user_token, source,
                             "read_any") # "none"
            THEN [error |-> "UnauthorizedAccessError", result |-> <<>>]
       ELSE [error |-> "none", result |-> upload_request]

\* DeleteFileUseCase._find_upload_request_by_filename: returns None
_find_upload_request_by_filename(tbl, filename) == <<>>

AccessTokens == {NoneVal, <<>>, <<"good">>, <<"other">>, <<"bad">>}


GetUploadStatus(upload_id, user_token, source) ==
    LET r == get_upload_status(table, upcache, upload_id, user_token, source)
    IN /\ lastOp' = [op |-> "get_status", upload_id |-> upload_id,
                     user_token |-> user_token, source |-> source,
                     error |-> r.error, result |-> r.result]
       /\ UNCHANGED <<cache, now, hits, entities, svcVars, rlVars, raceVars>>

\* DeleteFileUseCase.execute
DeleteFile(filename, user_token, source, deleteOutcome) ==
    LET found == _find_upload_request_by_filename(table, filename)
        denied == IF found # <<>> /\ user_token # NoneVal
                     /\ user_token # <<>>
                  THEN _authorize(found[1], user_token, source, "delete_any")
                  ELSE "none"
        error == IF found = <<>> THEN "FileNotFoundError" ELSE denied
        del == IF error = "none"
               THEN delete_file(objects, found[1].s3_key, deleteOutcome)
               ELSE [objects |-> objects, success |-> FALSE]
        marked == IF del.success THEN mark_as_deleted(found[1]).entity
                  ELSE NoneVal
    IN /\ objects' = del.objects
       /\ table' = IF del.success THEN update(table, marked, FALSE).table
                   ELSE table
       /\ events' = IF del.success
                    THEN Append(events, <<"file_deleted", marked.s3_key>>)
                    ELSE events
       /\ lastOp' = [op |-> "delete_file", filename |-> filename,
                     user_token |-> user_token, source |-> source,
                     error |-> error, found |-> found,
                     deleted |-> del.success]
       /\ UNCHANGED <<cache, now, hits, entities, sweep, grants, upcache, rlVars, raceVars>>

\* A grant is issued to an anonymous caller or to a user
IssueGrantAs ==
    /\ Cardinality(table) < MaxItems
    /\ \E tok \in {NoneVal, <<"good">>, <<"other">>}, x \in ExpiresIn,
          fail \in {"none", "cache"} :
          GenerateUploadUrl(<<"f", ".", "jpg">>, <<"image/jpeg">>, "temporary",
                            tok, NoneVal, x, fail)

NextAccess ==
    \/ IssueGrantAs
    \/ \E k \in grants : ClientUpload(k)
    \/ \E id \in Ids(table) \cup {"uuid0"}, tok \in AccessTokens, s \in PermissionSources :
          GetUploadStatus(id, tok, s)
    \/ \E f \in {<<"f", ".", "jpg">>}, tok \in AccessTokens,
          s \in PermissionSources, o \in {"done", "refused"} :
          DeleteFile(f, tok, s, o)

SpecAccess == InitCache /\ [][NextAccess]_vars

----------------------------------------------------------------------------
(* The rate limiters of the analytics service: InMemoryRateLimiter and
   RedisRateLimiter, fed the same requests.  Two calls never read the same
   time.time(). *)

MaxWall == 3        \* time.time() stops here


\* while self.requests[key] and self.requests[key][0] < window_start: popleft
RECURSIVE popleft_old(_, _)
popleft_old(deque, window_start) ==
    IF deque # <<>> /\ Head(deque) < window_start
    THEN popleft_old(Tail(deque), window_start)
    ELSE deque

\* InMemoryRateLimiter.is_allowed
InMemory_is_allowed(reqs, key, max_requests, window_seconds, t) ==
    LET window_start == t - window_seconds
        kept == popleft_old(reqs[key], window_start)
    IN IF Len(kept) < max_requests
       THEN [allowed |-> TRUE,
             requests |-> [reqs EXCEPT ![key] = Append(kept, t)]]
       ELSE [allowed |-> FALSE, requests |-> [reqs EXCEPT ![key] = kept]]

\* InMemoryRateLimiter.get_remaining
InMemory_get_remaining(reqs, key, max_requests, window_seconds, t) ==
    LET current_requests ==
            Cardinality({i \in DOMAIN reqs[key] :
                            reqs[key][i] >= t - window_seconds})
    IN IF max_requests - current_requests > 0
       THEN max_requests - current_requests
       ELSE 0

\* The sorted set of a key as Redis holds it at time t: gone once expired
zset_at(zs, key, t) ==
    IF zs[key].expire_at <= t THEN {} ELSE zs[key].members

\* The pipeline of RedisRateLimiter.is_allowed: zremrangebyscore(0,
\* window_start), zcard, zadd {str(now): now}, expire(window_seconds)
rate_pipeline(zs, key, window_seconds, t) ==
    LET remaining == {m \in zset_at(zs, key, t) : m > t - window_seconds}
    IN [zcard |-> Cardinality(remaining),
        zsets |-> [zs EXCEPT ![key] =
                      [members |-> remaining \cup {t},
                       expire_at |-> t + window_seconds]]]

\* RedisRateLimiter.is_allowed with Redis available at construction
Redis_is_allowed(zs, key, max_requests, window_seconds, t, outcome) ==
    LET piped == rate_pipeline(zs, key, window_seconds, t)
    IN IF outcome = "down" THEN [allowed |-> TRUE, zsets |-> zs]
       ELSE IF outcome = "lost" THEN [allowed |-> TRUE, zsets |-> piped.zsets]
       ELSE [allowed |-> piped.zcard < max_requests, zsets |-> piped.zsets]

\* RedisRateLimiter.get_remaining, after is_allowed, Redis answering
Redis_get_remaining(zs, key, max_requests, window_seconds, t) ==
    LET current_count ==
            Cardinality({m \in zset_at(zs, key, t) :
                            m > t - window_seconds})
    IN IF max_requests - current_count > 0
       THEN max_requests - current_count
       ELSE 0

\* RateLimiter.check_rate_limit, by the in-memory limiter and by the Redis
\* limiter, on the same request
CheckRateLimit(key, max_requests, window_seconds, outcome) ==
    LET mem == InMemory_is_allowed(requests, key, max_requests,
                                   window_seconds, wall)
        red == Redis_is_allowed(zsets, key, max_requests, window_seconds,
                                wall, outcome)
        entry == [key |-> key, t |-> wall, max_requests |-> max_requests,
                  window_seconds |-> window_seconds, outcome |-> outcome,
                  memory |-> mem.allowed, redis |-> red.allowed]
    IN /\ \A i \in DOMAIN ratelog :
             ratelog[i].key = key => ratelog[i].t < wall
       /\ requests' = mem.requests
       /\ zsets' = red.zsets
       /\ ratelog' = Append(ratelog, entry)
       /\ lastOp' = [op |-> "check_rate_limit", key |-> key,
                     memory |-> [allowed |-> mem.allowed,
                                 remaining |->
                                     InMemory_get_remaining(mem.requests,
                                         key, max_requests, window_seconds,
                                         wall)],
                     redis |-> [allowed |-> red.allowed,
                                remaining |->
                                    IF outcome = "ok"
                                    THEN Redis_get_remaining(red.zsets, key,
                                             max_requests, window_seconds,
                                             wall)
                                    ELSE max_requests]]
       /\ UNCHANGED <<cache, now, hits, entities, svcVars, wall, raceVars>>

\* time.time() moves on
WallTick ==
    /\ wall < MaxWall
    /\ wall' = wall + 1
    /\ lastOp' = [op |-> "wall_tick"]
    /\ UNCHANGED <<cache, now, hits, entities, svcVars, requests, zsets,
                   ratelog, raceVars>>

NextLimit ==
    \* max_requests and window_seconds of the decorated endpoints, scaled;
    \* Redis executes and replies, cannot be reached, or executes and the
    \* reply is lost
    \/ \E key \in RateKeys, m \in {1, 2}, w \in {2},
          o \in {"ok", "down", "lost"} : CheckRateLimit(key, m, w, o)
    \/ WallTick

SpecLimit == InitCache /\ [][NextLimit]_vars

----------------------------------------------------------------------------
(* get_form_analytics_summary beside invalidate_cache.  The read awaits the
   cache lookup, the query and the cache write, so it runs in three steps
   and an invalidation may run between any two of them.  Each result the
   query source computes is tagged with the number of invalidations that
   had returned by then. *)

MaxInvalidations == 2

\* The read up to the lookup: a hit returns at once
ReadLookup(form_id) ==
    LET key == FormSummaryKey(form_id, NoneVal, NoneVal)
        g == get(cache, now, key, FALSE)
        served == {e \in Live(cache, now) : e.key = key}
    IN /\ reader.pc = "idle"
       /\ IF Truthy(g.value)
          THEN /\ hits < MaxHits
               /\ hits' = hits + 1
               /\ reader' = reader
               /\ lastOp' = [op |-> "read_return", form_id |-> form_id,
                             from_cache |-> TRUE, result |-> g.value,
                             computed_after |->
                                 (CHOOSE e \in served : TRUE).origin.epoch,
                             invalidations |-> invalidations]
          ELSE /\ hits' = hits
               /\ reader' = [pc |-> "query", form_id |-> form_id]
               /\ lastOp' = [op |-> "read_lookup", form_id |-> form_id]
       /\ UNCHANGED <<cache, now, entities, svcVars, rlVars, invalidations>>

\* summary = await self.bigquery_service.get_form_summary(...) and the charts
ReadQuery(fresh) ==
    /\ reader.pc = "query"
    /\ reader' = [pc |-> "store", form_id |-> reader.form_id,
                  fresh |-> fresh, epoch |-> invalidations]
    /\ lastOp' = [op |-> "read_query", form_id |-> reader.form_id]
    /\ UNCHANGED <<cache, now, hits, entities, svcVars, rlVars,
                   invalidations>>

\* await self.cache_service.set_form_summary(...) and return response_data
ReadStore ==
    LET key == FormSummaryKey(reader.form_id, NoneVal, NoneVal)
        s == set(cache, now, key, reader.fresh, TtlNone, FALSE,
                 [type |-> "form_summary", form_id |-> reader.form_id,
                  question_id |-> NoneVal, epoch |-> reader.epoch])
    IN /\ reader.pc = "store"
       /\ cache' = s.store
       /\ reader' = [pc |-> "idle"]
       /\ lastOp' = [op |-> "read_return", form_id |-> reader.form_id,
                     from_cache |-> FALSE, result |-> reader.fresh,
                     computed_after |-> reader.epoch,
                     invalidations |-> invalidations]
       /\ UNCHANGED <<now, hits, entities, svcVars, rlVars, invalidations>>

\* AnalyticsService.invalidate_cache(form_id): it returns the count
InvalidateCache(form_id) ==
    LET r == invalidate_form_cache(cache, now, form_id, FALSE, FALSE)
    IN /\ invalidations < MaxInvalidations
       /\ cache' = r.store
       /\ invalidations' = invalidations + 1
       /\ lastOp' = [op |-> "invalidate_cache", form_id |-> form_id,
                     deleted_keys |-> r.result]
       /\ UNCHANGED <<now, hits, entities, svcVars, rlVars, reader>>

\* The Redis clock advances while a read may be in flight
RaceTick ==
    /\ now < MaxTime
    /\ now' = now + 1
    /\ lastOp' = [op |-> "tick"]
    /\ UNCHANGED <<cache, hits, entities, svcVars, rlVars, raceVars>>

NextReadRace ==
    \/ ReadLookup(<<"a">>)
    \/ \E fresh \in FreshValues : ReadQuery(fresh)
    \/ ReadStore
    \/ InvalidateCache(<<"a">>)
    \/ RaceTick

SpecReadRace == InitCache /\ [][NextReadRace]_vars

----------------------------------------------------------------------------
(* Properties of the cache *)

Removed == lastOp.removed
Before == cache \cup lastOp.removed

\* C1: invalidate_form_cache(F) removes no entry written for a form other
\* than F and no entry outside the service's namespace.
C1_NoOverInvalidationByForm ==
    lastOp.op = "invalidate_form" =>
        \A e \in Removed :
            e.origin.type \in KeyTypes /\ e.origin.form_id = lastOp.form_id

\* C2: after invalidate_form_cache(F) has completed without a store error, no
\* form_summary, question_analytics or trend_analysis entry written for F is
\* left in the cache.
C2_NoUnderInvalidationByForm ==
    (lastOp.op = "invalidate_form" /\ ~lastOp.failed) =>
        \A e \in Live(cache, now) :
            ~(e.origin.type \in KeyTypes /\ e.origin.form_id = lastOp.form_id)

\* C3: invalidate_question_cache(F, Q) removes exactly the entries written
\* for form F and question Q, and returns how many it removed.
C3_QuestionInvalidationExact ==
    (lastOp.op = "invalidate_question" /\ ~lastOp.failed) =>
        /\ Removed = {e \in Before :
                        /\ e.origin.type \in KeyTypes
                        /\ e.origin.form_id = lastOp.form_id
                        /\ e.origin.question_id = lastOp.question_id}
        /\ lastOp.result = Cardinality(Removed)

\* C4: no cache operation raises; when the store fails, get gives a miss,
\* set and delete give false and pattern invalidation gives 0; an analytics
\* read whose cache calls fail still returns the freshly computed result.
C4_CacheFailsOpen ==
    /\ lastOp.op \in {"get", "set", "delete", "invalidate_form"} =>
          /\ ~lastOp.raised
          /\ lastOp.failed =>
                CASE lastOp.op = "get" -> lastOp.value = "None"
                  [] lastOp.op = "invalidate_form" -> lastOp.result = 0
                  [] OTHER -> lastOp.result = FALSE
    /\ (lastOp.op = "read" /\ ~lastOp.failQuery) =>
          /\ ~lastOp.raised
          /\ (lastOp.queried \/ (lastOp.use_cache /\ lastOp.failGet)) =>
                lastOp.result = lastOp.fresh

C4_Witness ==
    /\ lastOp.op = "read"
    /\ lastOp.use_cache /\ lastOp.failGet /\ lastOp.failSet
    /\ ~lastOp.raised
    /\ lastOp.result = lastOp.fresh
    /\ cache # {}

\* C5: an entry expires at its creation time plus the TTL it was set with
\* (the default TTL when none was given), and a get of its key at or after
\* that time is a miss, as for a key that was never set.
C5_ExpiredEntryIsMiss ==
    (lastOp.op = "get" /\ ~lastOp.failed) =>
        \A e \in lastOp.stored :
            now >= e.created + (IF e.ttl.given /\ e.ttl.secs # 0
                                THEN e.ttl.secs ELSE DefaultTtl)
            => /\ lastOp.value = "None"
               /\ hits = lastOp.hitsBefore
               /\ lastOp.value = get({}, now, lastOp.key, FALSE).value

C5_Witness ==
    /\ lastOp.op = "get" /\ ~lastOp.failed
    /\ \E e \in lastOp.stored : e.ttl = Ttl(1) /\ e.created = 0 /\ now = 1
    /\ lastOp.value = "None"

\* C6: set(key, v) followed at once by get(key) returns v, and the hit
\* count goes up by exactly 1.
C6_RoundTrip ==
    (/\ lastOp.op = "get" /\ ~lastOp.failed
     /\ lastOp.prev.op = "set" /\ lastOp.prev.result
     /\ lastOp.prev.key = lastOp.key) =>
        /\ lastOp.value = lastOp.prev.value
        /\ hits = lastOp.hitsBefore + 1

\* A sequence holding the same keyword arguments in another order
Reorderings(kwargs) ==
    {kw \in [1..Len(kwargs) -> Range(kwargs)] : Range(kw) = Range(kwargs)}

RECURSIVE WithoutNone(_)
WithoutNone(kwargs) ==
    IF kwargs = <<>> THEN <<>>
    ELSE (IF Head(kwargs).value = NoneVal THEN <<>> ELSE <<Head(kwargs)>>)
         \o WithoutNone(Tail(kwargs))

\* C7: the key does not depend on the order in which the keyword arguments
\* are passed, and an argument that is None adds nothing to it.
C7_KeyDeterminism ==
    lastOp.op = "compose" =>
        /\ \A kw \in Reorderings(lastOp.kwargs) :
              _get_cache_key(lastOp.key_type, kw) = lastOp.key
        /\ _get_cache_key(lastOp.key_type, WithoutNone(lastOp.kwargs))
              = lastOp.key

C7_Witness ==
    /\ lastOp.op = "compose"
    /\ lastOp.kwargs = <<KV("start_date", NoneVal), KV("form_id", <<"a">>),
                         KV("end_date", D1)>>
    /\ lastOp.key = <<CachePrefix, SEP, lastOp.key_type, SEP, "end_date", SEP>>
                    \o isoformat(D1) \o <<SEP, "form_id", SEP, "a">>

ReadDone == lastOp.op = "read"

\* The entry the store served for the key of the read, if it served one
ServedEntries ==
    IF lastOp.failGet THEN {}
    ELSE {e \in Live(lastOp.before, now) : e.key = lastOp.key}

\* C23: with use_cache, the query source is called exactly when the lookup
\* of the key misses; after a miss the result is stored under the key and
\* returned; on a hit the stored result is returned, the query source is
\* not called and the store is left alone; without use_cache the cache is
\* neither read nor written.
C23_CacheAside ==
    ReadDone =>
        /\ lastOp.use_cache =>
              /\ lastOp.looked
              /\ lastOp.queried = (ServedEntries = {})
        /\ (lastOp.use_cache /\ lastOp.queried /\ ~lastOp.failQuery
             /\ ~lastOp.failSet) =>
              /\ lastOp.result = lastOp.fresh
              /\ \E e \in Live(cache, now) :
                    /\ e.key = lastOp.key
                    /\ e.value = json_dumps(lastOp.fresh)
                    /\ e.exp = now + DefaultTtl
        /\ (lastOp.use_cache /\ ServedEntries # {}) =>
              /\ \E e \in ServedEntries : lastOp.result = json_loads(e.value)
              /\ cache = lastOp.before
        /\ ~lastOp.use_cache =>
              /\ ~lastOp.looked
              /\ lastOp.queried
              /\ cache = lastOp.before
              /\ hits = lastOp.hitsBefore

C23_Witness ==
    /\ ReadDone /\ lastOp.use_cache /\ ~lastOp.queried
    /\ lastOp.prev.op = "read"
    /\ lastOp.prev.key = lastOp.key
    /\ lastOp.prev.use_cache /\ lastOp.prev.queried /\ ~lastOp.prev.raised
    /\ lastOp.result = json_loads(json_dumps(lastOp.prev.result))

\* C24: once an invalidate_cache of the form has returned, no read of the
\* form is served from the cache a result that the query source computed
\* before that invalidation.
C24_InvalidationNotUndone ==
    (lastOp.op = "read_return" /\ lastOp.from_cache) =>
        lastOp.computed_after = lastOp.invalidations

----------------------------------------------------------------------------
(* Properties of the upload lifecycle *)

After == entities[lastOp.index]

\* C8: mark_as_uploaded succeeds only from pending, where it sets uploaded;
\* from every other status it raises and leaves the status as it was.
C8_MarkUploadedOnlyFromPending ==
    lastOp.op = "mark_as_uploaded" =>
        IF lastOp.before.status = "pending"
        THEN ~lastOp.raised /\ After.status = "uploaded"
        ELSE lastOp.raised /\ After.status = lastOp.before.status

C8_Witness ==
    /\ lastOp.op = "mark_as_uploaded"
    /\ lastOp.before.status \in {"uploaded", "failed", "deleted"}
    /\ lastOp.raised
    /\ \E i \in DOMAIN entities : entities[i].status = "uploaded"

\* C9: mark_as_failed on an entity that is failed or deleted is rejected and
\* leaves the status as it was.
C9_MarkFailedRejectedFromTerminal ==
    (lastOp.op = "mark_as_failed"
     /\ lastOp.before.status \in {"failed", "deleted"}) =>
        lastOp.raised /\ After.status = lastOp.before.status

\* C10: mark_as_deleted never raises, ends in deleted from every status, and
\* a second application changes nothing.
C10_MarkDeletedIdempotent ==
    lastOp.op = "mark_as_deleted" =>
        /\ ~lastOp.raised
        /\ After.status = "deleted"
        /\ mark_as_deleted(After) = [entity |-> After, raised |-> FALSE]

C10_Witness ==
    /\ lastOp.op = "mark_as_deleted"
    /\ lastOp.before.status = "deleted"
    /\ ~lastOp.raised
    /\ After.status = "deleted"

LifecycleOps == {"mark_as_uploaded", "mark_as_failed", "mark_as_deleted"}

\* C12: a lifecycle operation, whether it succeeds or raises, changes no
\* field of the entity other than status.
C12_IdentityImmutable ==
    lastOp.op \in LifecycleOps =>
        /\ [After EXCEPT !.status = lastOp.before.status] = lastOp.before
        /\ \A i \in DOMAIN entities :
              i # lastOp.index => entities[i].id # After.id

C12_Witness ==
    /\ lastOp.op = "mark_as_failed"
    /\ lastOp.before.status = "pending"
    /\ After.status = "failed"
    /\ After.id = lastOp.before.id
    /\ After.s3_key = lastOp.before.s3_key

\* The key has the form purpose/(user_id or "anonymous")/Y/M/D/token_filename
HasKeyForm(e) ==
    \E token \in {uuid4(n) : n \in 1..(2 * MaxEntities)} :
        e.s3_key = <<e.purpose, "/">>
                   \o (IF e.user_id = NoneVal THEN <<"anonymous">>
                       ELSE e.user_id)
                   \o <<"/", "Y", "/", "M", "/",
                        "D" \o ToString(e.created_at \div ClockDay),
                        "/", token, "_">>
                   \o e.filename

\* C13: two UploadRequest constructions never derive the same storage key,
\* and every derived key has the form
\* purpose/(user_id or "anonymous")/Y/M/D/token_filename.
C13_StorageKeysDistinct ==
    /\ \A i, j \in DOMAIN entities :
          i # j => entities[i].s3_key # entities[j].s3_key
    /\ \A i \in DOMAIN entities : HasKeyForm(entities[i])

C13_Witness ==
    \E i, j \in DOMAIN entities :
        /\ i # j
        /\ entities[i].filename = entities[j].filename
        /\ entities[i].purpose = entities[j].purpose
        /\ entities[i].user_id = entities[j].user_id
        /\ entities[i].user_id = NoneVal
        /\ entities[i].created_at = entities[j].created_at
        /\ entities[i].s3_key # entities[j].s3_key

----------------------------------------------------------------------------
(* Properties of GenerateUploadUrlUseCase *)

EmptyFilename(l) == l.filename = <<>>
MissingContentType(l) == l.content_type = <<>>
DisallowedExtension(l) == l.filename \in {<<"f">>, <<"f", ".", "exe">>}
UnknownToken(l) == l.user_token = <<"bad">>

\* C20: execute rejects an empty filename, a missing content type and a
\* disallowed extension with InvalidFileError, and a token that resolves to
\* no user with UnauthorizedAccessError; a rejected call issues no grant,
\* persists nothing, caches nothing and publishes nothing.
C20_RejectsWithoutSideEffects ==
    lastOp.op = "create_grant" =>
        /\ (EmptyFilename(lastOp) \/ MissingContentType(lastOp)
            \/ DisallowedExtension(lastOp)) =>
              lastOp.error = "InvalidFileError"
        /\ (UnknownToken(lastOp) /\ ~EmptyFilename(lastOp)
            /\ ~MissingContentType(lastOp) /\ ~DisallowedExtension(lastOp)) =>
              lastOp.error = "UnauthorizedAccessError"
        /\ lastOp.error \in {"InvalidFileError", "UnauthorizedAccessError"} =>
              ~lastOp.changed /\ lastOp.result = <<>>

C20_Witness ==
    /\ lastOp.op = "create_grant"
    /\ UnknownToken(lastOp)
    /\ lastOp.error = "UnauthorizedAccessError"
    /\ ~lastOp.changed
    /\ grants = {} /\ table = {} /\ upcache = {} /\ events = <<>>

----------------------------------------------------------------------------
(* Properties of CleanupExpiredUploadsUseCase *)

\* execute has ended, by returning or by raising
SweepDone == lastOp.op = "sweep"

\* The requests the sweep is meant to reap: expired before the cutoff and
\* pending or failed when the sweep started
InScope ==
    {item \in lastOp.atStart :
        /\ fromisoformat(item.expires_at) < lastOp.before_date
        /\ item.status \in {"pending", "failed"}}

\* The passes of the loop made for a request
Passes(id) == {k \in DOMAIN lastOp.log : lastOp.log[k].id = id}

Touched(k) ==
    lastOp.log[k].checked \/ lastOp.log[k].delete_called
    \/ lastOp.log[k].update_called

\* C14: total_found of a sweep that returns is the number of requests that
\* were expired and pending or failed.
C14_TotalFoundCountsReaped ==
    (SweepDone /\ lastOp.raised = "none") =>
        lastOp.stats[1].total_found = Cardinality(InScope)

\* C15: a request that is uploaded, processing or completed, or that is not
\* expired before the cutoff, gets no existence check, no delete and no
\* update from the sweep, and its stored item is as it was.
C15_SweepLeavesOthersAlone ==
    SweepDone =>
        \A item \in lastOp.atStart :
            (\/ item.status \in {"uploaded", "processing", "completed"}
             \/ ~(fromisoformat(item.expires_at) < lastOp.before_date)) =>
                /\ \A k \in Passes(item.id) : ~Touched(k)
                /\ item \in table

C15_Witness ==
    /\ SweepDone /\ lastOp.raised = "none"
    /\ \E item \in lastOp.atStart :
          /\ item.status = "uploaded"
          /\ fromisoformat(item.expires_at) < lastOp.before_date
          /\ Passes(item.id) # {}
          /\ item.s3_key \in objects
    /\ \E k \in DOMAIN lastOp.log : lastOp.log[k].updated

\* C16: when no call raises, every request that is expired and pending or
\* failed is checked in storage, its object deleted if present, and the
\* request stored as deleted whatever the delete reported; updated_in_db
\* counts these requests and deleted_from_storage the deletes that succeeded.
C16_ReapsEveryExpiredPending ==
    (/\ SweepDone
     /\ lastOp.raised # "Exception"
     /\ \A k \in DOMAIN lastOp.log : ~lastOp.log[k].error) =>
        /\ InScope # {} => lastOp.raised = "none"
        /\ \A item \in InScope :
              /\ \E k \in Passes(item.id) : lastOp.log[k].checked
              /\ Persisted(table, item.id) = "deleted"
        /\ lastOp.raised = "none" =>
              /\ lastOp.stats[1].updated_in_db = Cardinality(InScope)
              /\ lastOp.stats[1].deleted_from_storage =
                    Cardinality({k \in DOMAIN lastOp.log :
                                    lastOp.log[k].deleted})

\* C17: execute never raises; it always returns the stats.
C17_SweepNeverRaises ==
    SweepDone => lastOp.raised = "none" /\ Len(lastOp.stats) = 1

C19_SweepSparesUploaded ==
    (lastOp.op = "sweep_step" /\ lastOp.persisted = "uploaded") =>
        ~lastOp.deleted /\ ~lastOp.updated

\* The item of a request as the table held it when the sweep started
ItemAtStart(id) == CHOOSE item \in lastOp.atStart : item.id = id

\* C27: the item the sweep stores for a request it marks deleted is the item
\* stored before the sweep with status deleted: every other attribute
\* (filename, purpose, user_id, form_id, created_at, metadata, id, s3_key,
\* expires_at, presigned_url) is as it was.
C27_SweepChangesStatusOnly ==
    (SweepDone /\ lastOp.raised = "none") =>
        \A k \in DOMAIN lastOp.log :
            lastOp.log[k].updated =>
                [ItemAtStart(lastOp.log[k].id) EXCEPT !.status = "deleted"]
                    \in table

C27_Witness ==
    /\ SweepDone /\ lastOp.raised = "none"
    /\ \E k \in DOMAIN lastOp.log :
          /\ lastOp.log[k].updated
          /\ {"metadata", "form_id", "presigned_url"}
                \subseteq DOMAIN ItemAtStart(lastOp.log[k].id)
          /\ ItemAtStart(lastOp.log[k].id).status = "failed"

\* C28: a run of the sweep that follows, with the same cutoff and nothing
\* in between, a run that reported errors = 0 calls no delete and no update
\* and reports deleted_from_storage = 0 and updated_in_db = 0.
C28_SweepIdempotent ==
    (/\ SweepDone /\ lastOp.raised = "none"
     /\ lastOp.prev # <<>>
     /\ lastOp.prev[1].raised = "none"
     /\ lastOp.prev[1].before_date = lastOp.before_date
     /\ lastOp.prev[1].stats[1].errors = 0) =>
        /\ lastOp.stats[1].deleted_from_storage = 0
        /\ lastOp.stats[1].updated_in_db = 0
        /\ \A k \in DOMAIN lastOp.log :
              ~lastOp.log[k].delete_called /\ ~lastOp.log[k].update_called

C28_Witness ==
    /\ SweepDone /\ lastOp.raised = "none"
    /\ lastOp.prev # <<>>
    /\ lastOp.prev[1].raised = "none"
    /\ lastOp.prev[1].stats[1].errors = 0
    /\ lastOp.prev[1].stats[1].updated_in_db = 2
    /\ lastOp.prev[1].stats[1].deleted_from_storage = 1
    /\ lastOp.stats[1].total_found = 2

----------------------------------------------------------------------------
(* Properties of createGrant *)

GrantDone == lastOp.op = "create_grant"

\* The items the call added to the table
SavedItems == table \ lastOp.before

\* The steps of the call the claim names, in the order they were entered
NamedSteps ==
    SelectSeq(lastOp.calls,
              LAMBDA s : s \in {"validate", "build", "presign", "save",
                                "publish"})

\* C21: a createGrant that succeeds has validated, built the entity, asked
\* storage for a grant for the entity's s3_key, saved the entity once as
\* pending with the issued URL, published one upload-started event, in this
\* order, and returns the grant; no call saves an entity without a grant.
C21_StepsInOrder ==
    GrantDone =>
        /\ \A item \in SavedItems :
              /\ item.s3_key \in lastOp.issued
              /\ "presigned_url" \in DOMAIN item
        /\ lastOp.error = "none" =>
              /\ NamedSteps = <<"validate", "build", "presign", "save",
                                "publish">>
              /\ lastOp.issued = {lastOp.request[1].s3_key}
              /\ lastOp.result[1].s3_key = lastOp.request[1].s3_key
              /\ lastOp.saves = 1
              /\ \E item \in SavedItems :
                    /\ SavedItems = {item}
                    /\ item.id = lastOp.request[1].id
                    /\ item.status = "pending"
                    /\ item.presigned_url = lastOp.result[1].presigned_url
              /\ lastOp.published = 1
              /\ events[Len(events)] =
                    <<"upload_started", lastOp.request[1].id>>

C21_Witness ==
    /\ GrantDone /\ lastOp.error = "none"
    /\ lastOp.user_token = <<"good">>
    /\ lastOp.form_id # NoneVal
    /\ Len(lastOp.calls) = 7
    /\ Cardinality(SavedItems) = 1

\* C26: a createGrant that returns an error has left no item of its own in
\* the table, and a failure of the cache write alone is not an error.
C26_AllOrNothing ==
    GrantDone =>
        /\ lastOp.error # "none" => SavedItems = {}
        /\ (lastOp.fail = "cache" /\ "cache" \in Range(lastOp.calls)) =>
              lastOp.error = "none"

\* C25: the upload_id a createGrant returns is the id of the entity it
\* saved, and GetUploadStatus with that upload_id finds the entity.
C25_ReturnedIdFindsEntity ==
    (GrantDone /\ lastOp.error = "none") =>
        /\ lastOp.result[1].upload_id = lastOp.request[1].id
        /\ get_upload_status(table, upcache, lastOp.result[1].upload_id,
                             lastOp.user_token, "default").error = "none"

----------------------------------------------------------------------------
(* Properties of the access to upload requests *)

\* The user the caller's token resolves to, None without a token
Caller == IF lastOp.user_token = NoneVal \/ lastOp.user_token = <<>>
          THEN NoneVal
          ELSE get_user_id(lastOp.user_token)

\* The caller holds the any-resource permission asked for
HoldsAny == lastOp.source = "external_yes"

\* C22: GetUploadStatus returns an entity, and DeleteFile deletes one, only
\* to a caller who is its user_id or holds read_any (delete_any).
C22_NonOwnerRejected ==
    /\ (lastOp.op = "get_status" /\ lastOp.error = "none") =>
          (Caller = lastOp.result[1].user_id \/ HoldsAny)
    /\ (lastOp.op = "delete_file" /\ lastOp.deleted) =>
          (Caller = lastOp.found[1].user_id \/ HoldsAny)

----------------------------------------------------------------------------
(* Properties of the rate limiters *)

\* The checks on the key of check i that came before it, within the window
\* of check i, and that the limiter named allowed
AllowedBefore(i, limiter) ==
    {j \in 1..(i - 1) :
        /\ ratelog[j].key = ratelog[i].key
        /\ ratelog[j].t >= ratelog[i].t - ratelog[i].window_seconds
        /\ ratelog[j][limiter]}

\* Redis has answered every check on the key of check i up to check i
RedisAnswered(i) ==
    \A j \in 1..i :
        ratelog[j].key = ratelog[i].key => ratelog[j].outcome = "ok"

\* C30: when Redis answers, the two limiters decide every request alike,
\* and each allows a request exactly when it has allowed fewer than
\* max_requests requests on the key within the window before it.
C30_LimitersAgree ==
    \A i \in DOMAIN ratelog :
        RedisAnswered(i) =>
            /\ ratelog[i].memory = ratelog[i].redis
            /\ ratelog[i].memory =
                  (Cardinality(AllowedBefore(i, "memory"))
                      < ratelog[i].max_requests)
            /\ ratelog[i].redis =
                  (Cardinality(AllowedBefore(i, "redis"))
                      < ratelog[i].max_requests)

----------------------------------------------------------------------------
(* Properties of key composition across queries *)

\* The fields of a composition that reach the key: name and non-null value
NonNull(kwargs) == {kv \in Range(kwargs) : kv.value # NoneVal}

AllKwargs == UNION {Kwargs(n) : n \in 1..MaxKwargs}

\* C29: two key compositions that differ in resource type or in the value of
\* a non-null field never produce the same key string
C29_KeysInjective ==
    lastOp.op = "compose" =>
        \A kt \in KeyTypes, kw \in AllKwargs :
            (kt # lastOp.key_type \/ NonNull(kw) # NonNull(lastOp.kwargs))
                => _get_cache_key(kt, kw) # lastOp.key

====
